---- MODULE Spec2Model ----
(***************************************************************************)
(* Token-bucket rate limiter of ffxiv-backend (src/utils/rate-limiter.ts), *)
(* and the FF14APIClient and HttpClient that call it (src/clients).        *)
(*                                                                         *)
(* Token amounts are JavaScript numbers and may be fractional.  They are   *)
(* kept here as integers counted in units of 1/OneToken of a token, so     *)
(* that maxTokens = OneToken + 1 is a fractional capacity and the          *)
(* `bucket.tokens--` of tryConsume subtracts OneToken units.  Times are    *)
(* integer milliseconds.  Quotients that JavaScript computes as floating   *)
(* point numbers (resetTime, retryAfter) are kept as num/den pairs, with   *)
(* den = 0 standing for Infinity.                                          *)
(***************************************************************************)
EXTENDS Integers, FiniteSets, Sequences, TLC

\* ---------------------------------------------------------------- bounds
OneToken == 2
MaxTicks == 5
MaxCalls == 3
MaxSweeps == 3

\* ------------------------------------------------------------ parameters
rateLimitKey == "ff14-api-client"
Keys == {rateLimitKey, "key1"}

MaxTokensChoices == {OneToken, OneToken + 1, 2 * OneToken}
RefillRateChoices == {0, 1, OneToken, 3 * OneToken}
RefillIntervalChoices == {2, 3}
BucketTTLChoices == {1, 3}
CleanupIntervalChoices == {2}

Min(a, b) == IF a < b THEN a ELSE b

VARIABLES
    ctor,          \* the config given to `new RateLimiter` and the error it threw
    keys,          \* the keys the callers of this limiter pass to it
    config,        \* RateLimiter.config (Required<RateLimitConfig>)
    buckets,       \* RateLimiter.buckets : Map<string, TokenBucket>
    cleanupTimer,  \* RateLimiter.cleanupTimer and the time left until it fires
    now,           \* the value Date.now() returns
    ticks,         \* real time elapsed since construction (timer timeline)
    hist,          \* history of the rateLimitKey bucket: creation, calls, credits
    spent,         \* keys that used up their tokens since they were last reset
    snap,          \* the rateLimitKey bucket as it was when the clock was set back
    quota,         \* first use of rateLimitKey and the calls allowed to it since
    client,        \* the FF14APIClient around the limiter and its request in flight
    last           \* the operation performed last and the value it returned

vars ==
    <<ctor, keys, config, buckets, cleanupTimer, now, ticks, hist, spent, snap,
      quota, client, last>>

\* ------------------------------------------------------------ validation
\* validateConfig: the configuration is accepted iff no check throws.
ValidateConfig(c) ==
    /\ ~(c.maxTokens <= 0)
    /\ ~(c.refillRate < 0)
    /\ ~(c.refillInterval <= 0)
    /\ ~(c.cleanupInterval <= 0)
    /\ ~(c.bucketTTL <= 0)

Configs ==
    { c \in [maxTokens : MaxTokensChoices,
             refillRate : RefillRateChoices,
             refillInterval : RefillIntervalChoices,
             cleanupInterval : CleanupIntervalChoices,
             bucketTTL : BucketTTLChoices] : ValidateConfig(c) }

KeysConfigs ==
    { c \in Configs : c.refillInterval = 2 /\ c.maxTokens = OneToken
                      /\ c.refillRate = OneToken /\ c.bucketTTL = 1 }

\* ----------------------------------------------------------- construction
\* the defaults of the constructor, in ms
DefaultCleanupInterval == 300000
DefaultBucketTTL == 600000

\* A RateLimitConfig as the caller writes it: the optional cleanupInterval
\* and bucketTTL are {} when left undefined and {v} when given.
GivenConfigs ==
    [maxTokens : {-1, 0, OneToken},
     refillRate : {-1, 0, OneToken},
     refillInterval : {0, 2},
     cleanupInterval : {{}, {0}, {2}},
     bucketTTL : {{}, {0}, {1}}]

\* a Required<RateLimitConfig> written out as a RateLimitConfig
Given(c) ==
    [c EXCEPT !.cleanupInterval = {c.cleanupInterval},
              !.bucketTTL = {c.bucketTTL}]

\* mutant: bucketTTL is not validated
ValidationErrorNoTTL(g) ==
    IF g.maxTokens <= 0 THEN "maxTokens must be greater than 0"
    ELSE IF g.refillRate < 0 THEN "refillRate must be non-negative"
    ELSE IF g.refillInterval <= 0 THEN "refillInterval must be greater than 0"
    ELSE IF \E v \in g.cleanupInterval : v <= 0
         THEN "cleanupInterval must be greater than 0"
    ELSE ""

\* validateConfig: the message of the Error it throws, "" when it returns
ValidationError(g) ==
    IF g.maxTokens <= 0 THEN "maxTokens must be greater than 0"
    ELSE IF g.refillRate < 0 THEN "refillRate must be non-negative"
    ELSE IF g.refillInterval <= 0 THEN "refillInterval must be greater than 0"
    ELSE IF \E v \in g.cleanupInterval : v <= 0
         THEN "cleanupInterval must be greater than 0"
    ELSE IF \E v \in g.bucketTTL : v <= 0
         THEN "bucketTTL must be greater than 0"
    ELSE ""

\* `x ?? d`
OrDefault(x, d) == IF x = {} THEN d ELSE CHOOSE v \in x : TRUE

\* the constructor's this.config
WithDefaults(g) ==
    [maxTokens |-> g.maxTokens,
     refillRate |-> g.refillRate,
     refillInterval |-> g.refillInterval,
     cleanupInterval |-> OrDefault(g.cleanupInterval, DefaultCleanupInterval),
     bucketTTL |-> OrDefault(g.bucketTTL, DefaultBucketTTL)]

\* this.config of an object whose constructor threw
Unassigned ==
    [maxTokens |-> 0, refillRate |-> 0, refillInterval |-> 0,
     cleanupInterval |-> 0, bucketTTL |-> 0]

NoTimer == [active |-> FALSE, remaining |-> 0]

\* startCleanupTimer
StartCleanupTimer(c) ==
    IF c.cleanupInterval > 0
    THEN [active |-> TRUE, remaining |-> c.cleanupInterval]
    ELSE NoTimer

QuotaConfigs ==
    { c \in Configs : /\ c.maxTokens % OneToken = 0
                      /\ c.refillRate % OneToken = 0
                      /\ c.refillInterval = 2
                      /\ c.bucketTTL = 1 }

ClockConfigs ==
    { c \in Configs : c.refillInterval = 2 /\ c.refillRate = OneToken
                      /\ c.bucketTTL = 3 }

\* ------------------------------------------------------- numeric helpers
Infinity == [num |-> 1, den |-> 0]
Rational(n, d) == IF d = 0 THEN Infinity ELSE [num |-> n, den |-> d]
IsFinite(q) == q.den # 0

\* refillInterval / refillRate, in ms per whole token
TimePerToken == Rational(config.refillInterval * OneToken, config.refillRate)

\* ------------------------------------------------------ bucket functions
\* mutant: a new bucket starts empty
NewBucketEmpty(t) ==
    [tokens |-> 0, lastRefill |-> t, lastAccessed |-> t]

NewBucket(t) ==
    [tokens |-> config.maxTokens, lastRefill |-> t, lastAccessed |-> t]

\* getOrCreateBucket: the store after the lookup
GetOrCreateBucket(bs, key, t) ==
    IF key \in DOMAIN bs
    THEN bs
    ELSE [x \in DOMAIN bs \cup {key} |-> IF x = key THEN NewBucket(t) ELSE bs[x]]

\* number of whole refill intervals between the bucket's lastRefill and t
RefillIntervals(b, t) == (t - b.lastRefill) \div config.refillInterval

\* mutant: the refill is not capped at maxTokens
RefillBucketNoCap(b, t) ==
    IF config.refillRate = 0 THEN b
    ELSE IF t < b.lastRefill THEN [b EXCEPT !.lastRefill = t]
    ELSE LET timeSinceLastRefill == t - b.lastRefill
             refillIntervals == RefillIntervals(b, t)
             tokensToAdd == refillIntervals * config.refillRate
         IN IF refillIntervals > 0
            THEN [b EXCEPT !.tokens = b.tokens + tokensToAdd,
                           !.lastRefill = t - (timeSinceLastRefill % config.refillInterval)]
            ELSE b

\* mutant: lastRefill snaps to the time of the call
RefillBucketSnap(b, t) ==
    IF config.refillRate = 0 THEN b
    ELSE IF t < b.lastRefill THEN [b EXCEPT !.lastRefill = t]
    ELSE LET refillIntervals == RefillIntervals(b, t)
             tokensToAdd == refillIntervals * config.refillRate
         IN IF refillIntervals > 0
            THEN [b EXCEPT !.tokens = Min(config.maxTokens, b.tokens + tokensToAdd),
                           !.lastRefill = t]
            ELSE b

\* mutant: no guard against a clock that went backwards
RefillBucketNoGuard(b, t) ==
    IF config.refillRate = 0 THEN b
    ELSE LET timeSinceLastRefill == t - b.lastRefill
             refillIntervals == RefillIntervals(b, t)
             tokensToAdd == refillIntervals * config.refillRate
         IN IF refillIntervals > 0
            THEN [b EXCEPT !.tokens = Min(config.maxTokens, b.tokens + tokensToAdd),
                           !.lastRefill = t - (timeSinceLastRefill % config.refillInterval)]
            ELSE b

\* refillBucket
RefillBucket(b, t) ==
    IF config.refillRate = 0 THEN b
    ELSE IF t < b.lastRefill THEN [b EXCEPT !.lastRefill = t]
    ELSE LET timeSinceLastRefill == t - b.lastRefill
             refillIntervals == RefillIntervals(b, t)
             tokensToAdd == refillIntervals * config.refillRate
         IN IF refillIntervals > 0
            THEN [b EXCEPT !.tokens = Min(config.maxTokens, b.tokens + tokensToAdd),
                           !.lastRefill = t - (timeSinceLastRefill % config.refillInterval)]
            ELSE b

\* mutant: with refillRate 0 the reset time is the time of the call
CalculateResetTimeNow(b, t) ==
    IF b.tokens >= config.maxTokens
    THEN Rational(t, 1)
    ELSE LET tokensNeeded == config.maxTokens - b.tokens
         IN IF config.refillRate = 0
            THEN Rational(t, 1)
            ELSE Rational(t * config.refillRate + tokensNeeded * config.refillInterval,
                          config.refillRate)

\* calculateResetTime
CalculateResetTime(b, t) ==
    IF b.tokens >= config.maxTokens
    THEN Rational(t, 1)
    ELSE LET tokensNeeded == config.maxTokens - b.tokens
         IN IF config.refillRate = 0
            THEN Infinity
            ELSE Rational(t * config.refillRate + tokensNeeded * config.refillInterval,
                          config.refillRate)

\* the bucket after the access-time update and the refill that both
\* tryConsume and getStatus perform first
Touch(bs, key, t) ==
    RefillBucket([GetOrCreateBucket(bs, key, t)[key] EXCEPT !.lastAccessed = t], t)

\* mutant: an empty bucket still grants a request
HasTokenOrZero(b) == b.tokens >= 0

\* tryConsume: `if (bucket.tokens > 0)`
HasToken(b) == b.tokens > 0

\* mutant: a denied call takes a token too
ConsumeBucketAlways(b) == [b EXCEPT !.tokens = b.tokens - OneToken]

\* tryConsume: the bucket it leaves behind
ConsumeBucket(b) ==
    IF HasToken(b) THEN [b EXCEPT !.tokens = b.tokens - OneToken] ELSE b

\* tryConsume: the RateLimitResult it returns
TryConsumeResult(bs, key, t) ==
    LET b == Touch(bs, key, t)
        after == ConsumeBucket(b)
    IN IF HasToken(b)
       THEN [allowed |-> TRUE,
             tokensRemaining |-> after.tokens,
             resetTime |-> CalculateResetTime(after, t),
             hasRetryAfter |-> FALSE,
             retryAfter |-> Rational(0, 1)]
       ELSE [allowed |-> FALSE,
             tokensRemaining |-> 0,
             resetTime |-> CalculateResetTime(after, t),
             hasRetryAfter |-> TRUE,
             retryAfter |-> TimePerToken]

\* getStatus: the RateLimitResult it returns
GetStatusResult(bs, key, t) ==
    LET b == Touch(bs, key, t)
    IN [allowed |-> b.tokens > 0,
        tokensRemaining |-> b.tokens,
        resetTime |-> CalculateResetTime(b, t),
        hasRetryAfter |-> FALSE,
        retryAfter |-> Rational(0, 1)]

\* mutant: a bucket is evicted as soon as it has been idle for bucketTTL
KeysToDeleteAtTTL(bs, t) ==
    { k \in DOMAIN bs : t - bs[k].lastAccessed >= config.bucketTTL }

\* cleanup: the keys whose bucket is evicted at time t
KeysToDelete(bs, t) ==
    { k \in DOMAIN bs : t - bs[k].lastAccessed > config.bucketTTL }

\* getBucketCount: this.buckets.size
GetBucketCount(bs) == Cardinality(DOMAIN bs)

Remove(f, ks) == [x \in DOMAIN f \ ks |-> f[x]]
Put(f, k, v) == [x \in DOMAIN f \cup {k} |-> IF x = k THEN v ELSE f[x]]

\* ---------------------------------------------------------------- history
NoResult ==
    [allowed |-> FALSE, tokensRemaining |-> 0, resetTime |-> Rational(0, 1),
     hasRetryAfter |-> FALSE, retryAfter |-> Rational(0, 1)]

\* `last` holds the RateLimitResult of the call just made, and NoCall once
\* any other operation or a clock change has happened since
Did(op, key, res) == [op |-> op, key |-> key, result |-> res]
NoCall == Did("none", "", NoResult)

\* The history of a bucket is kept for as long as the clock has not been
\* set back since the bucket was created; after that it is Stale.
\* seen holds the tokensRemaining that the latest getStatus reported, for
\* as long as no tryConsume was made on the key since
NewHist(t) ==
    [createdAt |-> t, calls |-> 0, allowedCalls |-> 0, credited |-> 0,
     seen |-> {}, monotonic |-> TRUE]
Stale ==
    [createdAt |-> 0, calls |-> 0, allowedCalls |-> 0, credited |-> 0,
     seen |-> {}, monotonic |-> FALSE]

\* history of `key` after a tryConsume/getStatus at time t on store bs:
\* calls counts tryConsume calls (up to MaxCalls), allowedCalls those that
\* were allowed, credited the refill intervals credited so far
HistAfterTouch(bs, key, t, consuming) ==
    LET h == IF key \notin DOMAIN bs THEN NewHist(t)
             ELSE IF key \in DOMAIN hist THEN hist[key] ELSE Stale
        b == [GetOrCreateBucket(bs, key, t)[key] EXCEPT !.lastAccessed = t]
        k == IF config.refillRate = 0 \/ t < b.lastRefill THEN 0
             ELSE RefillIntervals(b, t)
        ok == consuming /\ HasToken(Touch(bs, key, t))
    IN IF ~h.monotonic THEN Stale
       ELSE [h EXCEPT !.credited = @ + k,
                      !.calls = IF consuming THEN Min(@ + 1, MaxCalls) ELSE @,
                      !.seen = IF consuming THEN {}
                               ELSE {Touch(bs, key, t).tokens},
                      !.allowedCalls = IF ok THEN @ + 1 ELSE @]

\* the history is kept for the bucket of rateLimitKey, unless the quota
\* is audited instead
Record(key, h) ==
    IF key = rateLimitKey /\ ~quota.audited THEN Put(hist, key, h) ELSE hist

\* quota is kept for rateLimitKey in a limiter that is audited, from the
\* first tryConsume or getStatus after construction, reset, resetAll or
\* destroy, and for as long as the clock is not set back: the time of that
\* first use and the tryConsume calls allowed since (up to MaxCalls)
NotAudited == [audited |-> FALSE, firstUse |-> {}, allowed |-> 0]
Audited == [audited |-> TRUE, firstUse |-> {}, allowed |-> 0]
Audit(key, granted) ==
    IF key = rateLimitKey /\ quota.audited
    THEN [quota EXCEPT !.firstUse = IF @ = {} THEN {now} ELSE @,
                       !.allowed = IF granted THEN Min(@ + 1, MaxCalls) ELSE @]
    ELSE quota
Unused(key) == IF key = rateLimitKey /\ quota.audited THEN Audited ELSE quota

\* snap is taken when the clock is set back: the bucket of rateLimitKey and
\* the clock value at that moment.  It is kept while only getStatus is
\* called on the key, until a call is made with the clock back at that
\* value or past it, and dropped with the bucket.
Snapshot(bs, t) ==
    IF snap = {} /\ rateLimitKey \in DOMAIN bs
    THEN {[bucket |-> bs[rateLimitKey], at |-> t]}
    ELSE snap
ClockIsBack == \E s \in snap : now >= s.at
SnapUnless(dropped) == IF dropped THEN {} ELSE snap

\* ------------------------------------------------------------------- Init
\* the limiter right after construction
\* ------------------------------------------------------------ the client
\* the defaults of the HttpClient constructor
DefaultMaxRetries == 3
DefaultRetryDelay == 1000

\* rateLimit options: one request per hour, two requests per minute
Hourly ==
    [maxTokens |-> OneToken, refillRate |-> OneToken, refillInterval |-> 3600000]
PerMinute ==
    [maxTokens |-> 2 * OneToken, refillRate |-> 2 * OneToken,
     refillInterval |-> 60000]

\* FF14APIClientOptions as the caller writes them: retryAttempts and
\* retryDelay are {} when left undefined and {v} when given; retryAttempts
\* is a number of retries, 0 or more
ClientOptions ==
    {[retryAttempts |-> {}, retryDelay |-> {}, rateLimit |-> Hourly],
     [retryAttempts |-> {0}, retryDelay |-> {250}, rateLimit |-> PerMinute],
     [retryAttempts |-> {1}, retryDelay |-> {250}, rateLimit |-> PerMinute]}

\* the options of the HttpClient the FF14APIClient constructs
HttpOptions(o) ==
    [maxRetries |-> OrDefault(o.retryAttempts, DefaultMaxRetries),
     retryDelay |-> OrDefault(o.retryDelay, DefaultRetryDelay)]

\* the config of the RateLimiter the FF14APIClient constructs: the three
\* fields of rateLimit, cleanupInterval and bucketTTL left to the defaults
LimiterConfig(o) ==
    WithDefaults([maxTokens |-> o.rateLimit.maxTokens,
                  refillRate |-> o.rateLimit.refillRate,
                  refillInterval |-> o.rateLimit.refillInterval,
                  cleanupInterval |-> {},
                  bucketTTL |-> {}])

\* the public request operations of FF14APIClient
RequestOps ==
    {"getJobs", "getJob", "searchItems", "getItem", "searchAchievements",
     "getAchievement", "searchQuests", "getQuest"}
Ops == RequestOps \cup {"healthCheck"}

\* the operations that pass [] as fallbackValue; the others pass null
HasFallback(op) ==
    op \in {"getJobs", "searchItems", "searchAchievements", "searchQuests"}

\* HttpClientError: http carries the status of a response that was not ok,
\* timeout and network carry none
NoError == [kind |-> "none", status |-> 0]
HttpError(status) == [kind |-> "http", status |-> status]

\* what one fetch can do: answer with a status and a body that passes the
\* caller's check of it or not, time out, or fail on the network
Replies ==
    {[kind |-> "response", status |-> 200, body |-> b] : b \in {"valid", "invalid"}}
    \cup {[kind |-> "response", status |-> st, body |-> "none"] :
             st \in {304, 400, 404, 499, 500}}
    \cup {[kind |-> k, status |-> 0, body |-> "none"] : k \in {"timeout", "network"}}

\* how HttpClient.get settled
NotSettled == [how |-> "none", body |-> "none", error |-> NoError]
Returned(r) == [how |-> "returned", body |-> r.body, error |-> NoError]
Threw(e) == [how |-> "threw", body |-> "none", error |-> e]

\* how the operation settled: resolved with a value, or rejected with an
\* FF14APIClientError of the given statusCode (0 when undefined)
NoOutcome == [how |-> "none", what |-> "", code |-> 0]
Resolved(value) == [how |-> "resolved", what |-> value, code |-> 0]
Rejected(error, code) == [how |-> "rejected", what |-> error, code |-> code]

\* no FF14APIClient: the limiter is used directly
NoClient ==
    [options |-> [maxRetries |-> 0, retryDelay |-> 0],
     op |-> "", phase |-> "none", attempt |-> 0, attempts |-> 0, tokens |-> 0,
     waited |-> 0, lastError |-> NoError, result |-> NotSettled,
     outcome |-> NoOutcome]

\* a new FF14APIClient
NewClient(o) == [NoClient EXCEPT !.options = HttpOptions(o), !.phase = "idle"]

Constructed(ks, cs) ==
    /\ keys = ks
    /\ config \in cs
    /\ ctor = [given |-> Given(config), threw |-> ValidationError(Given(config))]
    /\ buckets = << >>
    /\ cleanupTimer = StartCleanupTimer(config)
    /\ now = 0
    /\ ticks = 0
    /\ hist = << >>
    /\ spent = {}
    /\ snap = {}
    /\ client = NoClient
    /\ last = NoCall

\* the limiter of FF14APIClient: every request uses the one rateLimitKey
Init == Constructed({rateLimitKey}, Configs) /\ quota = NotAudited

\* a limiter shared by callers with different keys
InitKeys == Constructed(Keys, KeysConfigs) /\ quota = NotAudited

\* `new RateLimiter(g)` for any config g: the limiter it returns, or the
\* error it throws, leaving no limiter and no timer
InitNew ==
    \E g \in GivenConfigs :
        /\ ctor = [given |-> g, threw |-> ValidationError(g)]
        /\ keys = {rateLimitKey}
        /\ config = IF ValidationError(g) = "" THEN WithDefaults(g) ELSE Unassigned
        /\ cleanupTimer = IF ValidationError(g) = ""
                          THEN StartCleanupTimer(WithDefaults(g)) ELSE NoTimer
        /\ buckets = << >>
        /\ now = 0
        /\ ticks = 0
        /\ hist = << >>
        /\ spent = {}
        /\ snap = {}
        /\ quota = NotAudited
        /\ client = NoClient
        /\ last = NoCall

\* the limiter of the clock-going-backwards test
InitClock == Constructed({rateLimitKey}, ClockConfigs) /\ quota = NotAudited

\* a limiter with whole-token capacity and rate whose quota is audited
InitQuota == Constructed({rateLimitKey}, QuotaConfigs) /\ quota = Audited

\* ---------------------------------------------------------------- actions
\* tryConsume as it acts on the limiter
TryConsumeStep(key) ==
    /\ buckets' = Put(buckets, key, ConsumeBucket(Touch(buckets, key, now)))
    /\ hist' = Record(key, HistAfterTouch(buckets, key, now, TRUE))
    /\ spent' = IF HasToken(ConsumeBucket(Touch(buckets, key, now)))
                THEN spent ELSE spent \cup {key}
    /\ last' = Did("tryConsume", key, TryConsumeResult(buckets, key, now))
    /\ snap' = SnapUnless(key = rateLimitKey)
    /\ quota' = Audit(key, HasToken(Touch(buckets, key, now)))
    /\ UNCHANGED <<ctor, keys, config, cleanupTimer, now, ticks>>

\* tryConsume called on the limiter directly
TryConsume(key) == TryConsumeStep(key) /\ UNCHANGED client

\* mutant: getStatus takes a token like tryConsume
GetStatusConsuming(key) ==
    /\ buckets' = Put(buckets, key, ConsumeBucket(Touch(buckets, key, now)))
    /\ hist' = Record(key, HistAfterTouch(buckets, key, now, FALSE))
    /\ UNCHANGED spent
    /\ last' = Did("getStatus", key, GetStatusResult(buckets, key, now))
    /\ snap' = SnapUnless(key = rateLimitKey /\ ClockIsBack)
    /\ quota' = Audit(key, FALSE)
    /\ UNCHANGED <<client, ctor, keys, config, cleanupTimer, now, ticks>>

GetStatus(key) ==
    /\ buckets' = Put(buckets, key, Touch(buckets, key, now))
    /\ hist' = Record(key, HistAfterTouch(buckets, key, now, FALSE))
    /\ UNCHANGED spent
    /\ last' = Did("getStatus", key, GetStatusResult(buckets, key, now))
    /\ snap' = SnapUnless(key = rateLimitKey /\ ClockIsBack)
    /\ quota' = Audit(key, FALSE)
    /\ UNCHANGED <<client, ctor, keys, config, cleanupTimer, now, ticks>>

\* mutant: reset drops every bucket
ResetDropsAll(key) ==
    /\ buckets' = << >>
    /\ hist' = << >>
    /\ spent' = spent \ {key}
    /\ last' = NoCall
    /\ snap' = {}
    /\ quota' = Unused(key)
    /\ UNCHANGED <<client, ctor, keys, config, cleanupTimer, now, ticks>>

Reset(key) ==
    /\ buckets' = Remove(buckets, {key})
    /\ hist' = Remove(hist, {key})
    /\ spent' = spent \ {key}
    /\ last' = NoCall
    /\ snap' = SnapUnless(key = rateLimitKey)
    /\ quota' = Unused(key)
    /\ UNCHANGED <<client, ctor, keys, config, cleanupTimer, now, ticks>>

\* mutant: resetAll keeps the bucket of rateLimitKey
ResetAllButOne ==
    /\ buckets' = Remove(buckets, DOMAIN buckets \ {rateLimitKey})
    /\ hist' = hist
    /\ spent' = {}
    /\ last' = NoCall
    /\ snap' = {}
    /\ quota' = Unused(rateLimitKey)
    /\ UNCHANGED <<client, ctor, keys, config, cleanupTimer, now, ticks>>

ResetAll ==
    /\ buckets' = << >>
    /\ hist' = << >>
    /\ spent' = {}
    /\ last' = NoCall
    /\ snap' = {}
    /\ quota' = Unused(rateLimitKey)
    /\ UNCHANGED <<client, ctor, keys, config, cleanupTimer, now, ticks>>

\* cleanup() called by the owner of the limiter
Cleanup ==
    /\ buckets' = Remove(buckets, KeysToDelete(buckets, now))
    /\ hist' = Remove(hist, KeysToDelete(buckets, now))
    /\ last' = NoCall
    /\ snap' = SnapUnless(rateLimitKey \in KeysToDelete(buckets, now))
    /\ UNCHANGED <<client, quota, ctor, keys, config, cleanupTimer, now, ticks, spent>>

\* mutant: the timer callback evicts nothing
TimerCleanupKeepsAll ==
    /\ cleanupTimer.active
    /\ cleanupTimer.remaining = 0
    /\ cleanupTimer' = [cleanupTimer EXCEPT !.remaining = config.cleanupInterval]
    /\ last' = NoCall
    /\ UNCHANGED <<client, quota, ctor, keys, config, buckets, hist, now, ticks, spent, snap>>

\* the setInterval callback of startCleanupTimer
TimerCleanup ==
    /\ cleanupTimer.active
    /\ cleanupTimer.remaining = 0
    /\ buckets' = Remove(buckets, KeysToDelete(buckets, now))
    /\ hist' = Remove(hist, KeysToDelete(buckets, now))
    /\ cleanupTimer' = [cleanupTimer EXCEPT !.remaining = config.cleanupInterval]
    /\ last' = NoCall
    /\ snap' = SnapUnless(rateLimitKey \in KeysToDelete(buckets, now))
    /\ UNCHANGED <<client, quota, ctor, keys, config, now, ticks, spent>>

\* mutant: destroy clears the store and leaves the timer running
DestroyKeepsTimer ==
    /\ UNCHANGED cleanupTimer
    /\ buckets' = << >>
    /\ hist' = << >>
    /\ spent' = {}
    /\ last' = NoCall
    /\ snap' = {}
    /\ quota' = Unused(rateLimitKey)
    /\ UNCHANGED <<client, ctor, keys, config, now, ticks>>

Destroy ==
    /\ cleanupTimer' = [active |-> FALSE, remaining |-> 0]
    /\ buckets' = << >>
    /\ hist' = << >>
    /\ spent' = {}
    /\ last' = NoCall
    /\ snap' = {}
    /\ quota' = Unused(rateLimitKey)
    /\ UNCHANGED <<client, ctor, keys, config, now, ticks>>

\* one millisecond passes: Date.now() and the timer both advance
Tick ==
    /\ ticks < MaxTicks
    /\ cleanupTimer.active => cleanupTimer.remaining > 0
    /\ ticks' = ticks + 1
    /\ now' = now + 1
    /\ cleanupTimer' = IF cleanupTimer.active
                       THEN [cleanupTimer EXCEPT !.remaining = @ - 1]
                       ELSE cleanupTimer
    /\ last' = NoCall
    /\ UNCHANGED <<client, quota, ctor, keys, config, buckets, hist, spent, snap>>

\* the wall clock is set back (Date.now() is not monotonic); timers are
\* not affected
ClockRegress ==
    /\ \E t \in 0 .. now - 1 : now' = t
    /\ hist' = [k \in DOMAIN hist |-> Stale]
    /\ last' = NoCall
    /\ quota' = NotAudited
    /\ UNCHANGED <<client, ctor, keys, config, buckets, cleanupTimer, ticks, spent, snap>>

\* the same event, with the bucket of rateLimitKey recorded in snap
ClockRegressSeen ==
    /\ \E t \in 0 .. now - 1 : now' = t
    /\ hist' = [k \in DOMAIN hist |-> Stale]
    /\ last' = NoCall
    /\ snap' = Snapshot(buckets, now)
    /\ quota' = NotAudited
    /\ UNCHANGED <<client, ctor, keys, config, buckets, cleanupTimer, ticks, spent>>

\* ------------------------------------------------------- client actions
\* HttpClient.makeRequest: a response is returned when response.ok
Ok(r) == r.kind = "response" /\ r.status >= 200 /\ r.status <= 299

\* HttpClient.makeRequest: the HttpClientError thrown for a reply not ok
ErrorOf(r) == IF r.kind = "response" THEN HttpError(r.status)
              ELSE [kind |-> r.kind, status |-> 0]

\* mutant: every error that carries a status is final
NoRetryAnyStatus(e) == e.status # 0 /\ e.status >= 400

\* HttpClient.request: the errors that are thrown without a retry
NoRetry(e) == e.status # 0 /\ e.status >= 400 /\ e.status < 500

\* mutant: the retry loop runs one attempt more
LastAttemptLate(c) == c.attempt = c.options.maxRetries + 1

\* HttpClient.request: `attempt === this.options.maxRetries`
LastAttempt(c) == c.attempt = c.options.maxRetries

\* healthCheck: what it resolves with
HealthOutcome(res) ==
    IF res.how = "returned" /\ res.body = "valid"
    THEN Resolved("ok") ELSE Resolved("error")

\* FF14APIClient.makeRequest after httpClient.get settled
RequestOutcome(op, res) ==
    IF res.how = "returned"
    THEN IF res.body = "valid" THEN Resolved("response")
         ELSE Rejected("Invalid data structure", 200)
    ELSE IF res.error.kind = "http"
    THEN IF res.error.status = 404 /\ HasFallback(op)
         THEN Resolved("fallback")
         ELSE Rejected("API request failed", res.error.status)
    ELSE Rejected("Network error", 0)

Outcome(op, res) ==
    IF op = "healthCheck" THEN HealthOutcome(res) ELSE RequestOutcome(op, res)

\* what a denied operation settles with, without a request
Denied(op) ==
    IF op = "healthCheck" THEN Resolved("error")
    ELSE Rejected("Rate limit exceeded", 429)

\* httpClient.get settles, its local lastError is gone, and the operation
\* settles with it
Settle(c, res) ==
    [c EXCEPT !.phase = "settled", !.lastError = NoError, !.result = res,
              !.outcome = Outcome(c.op, res)]

\* an operation of FF14APIClient up to its first await: tryConsume, then
\* the rate-limit error or the start of httpClient.get
ClientCall(op) ==
    /\ client.phase \in {"idle", "settled"}
    /\ TryConsumeStep(rateLimitKey)
    /\ client' =
         LET c == [client EXCEPT !.op = op, !.attempt = 0, !.attempts = 0,
                                 !.waited = 0, !.lastError = NoError,
                                 !.result = NotSettled, !.outcome = NoOutcome]
         IN IF TryConsumeResult(buckets, rateLimitKey, now).allowed
            THEN [c EXCEPT !.tokens = 1, !.phase = "attempting"]
            ELSE [c EXCEPT !.tokens = 0, !.phase = "settled",
                           !.outcome = Denied(op)]

\* one pass of the retry loop of HttpClient.request: the fetch and what
\* the loop does with its reply
HttpAttempt(r) ==
    /\ client.phase = "attempting"
    /\ client.attempt <= client.options.maxRetries
    /\ client' =
         LET c == [client EXCEPT !.attempts = @ + 1] IN
         IF Ok(r) THEN Settle(c, Returned(r))
         ELSE LET e == [c EXCEPT !.lastError = ErrorOf(r)] IN
              IF NoRetry(ErrorOf(r)) \/ LastAttempt(c)
              THEN Settle(e, Threw(ErrorOf(r)))
              ELSE [e EXCEPT !.phase = "delaying"]
    /\ last' = NoCall
    /\ UNCHANGED <<quota, ctor, keys, config, buckets, cleanupTimer, now, ticks,
                   hist, spent, snap>>

\* `await this.delay(this.options.retryDelay)` and the loop's attempt++
HttpDelay ==
    /\ client.phase = "delaying"
    /\ client' = [client EXCEPT !.waited = @ + client.options.retryDelay,
                                !.attempt = @ + 1,
                                !.phase = "attempting"]
    /\ last' = NoCall
    /\ UNCHANGED <<quota, ctor, keys, config, buckets, cleanupTimer, now, ticks,
                   hist, spent, snap>>

\* getRateLimitStatus
GetRateLimitStatus ==
    /\ client.phase \in {"idle", "settled"}
    /\ GetStatus(rateLimitKey)

\* no request is in flight and time passes until the cleanup timer is due
Sleep ==
    /\ client.phase \in {"idle", "settled"}
    /\ cleanupTimer.active
    /\ cleanupTimer.remaining > 0
    /\ ticks < MaxSweeps * config.cleanupInterval
    /\ ticks' = ticks + cleanupTimer.remaining
    /\ now' = now + cleanupTimer.remaining
    /\ cleanupTimer' = [cleanupTimer EXCEPT !.remaining = 0]
    /\ last' = NoCall
    /\ UNCHANGED <<client, quota, ctor, keys, config, buckets, hist, spent, snap>>

\* `new FF14APIClient(o)`
InitClient ==
    \E o \in ClientOptions :
        /\ ctor = [given |-> Given(LimiterConfig(o)), threw |-> ""]
        /\ keys = {rateLimitKey}
        /\ config = LimiterConfig(o)
        /\ cleanupTimer = StartCleanupTimer(LimiterConfig(o))
        /\ buckets = << >>
        /\ now = 0
        /\ ticks = 0
        /\ hist = << >>
        /\ spent = {}
        /\ snap = {}
        /\ quota = Audited
        /\ client = NewClient(o)
        /\ last = NoCall

NextClient ==
    \/ \E op \in Ops : ClientCall(op)
    \/ \E r \in Replies : HttpAttempt(r)
    \/ HttpDelay
    \/ GetRateLimitStatus
    \/ Sleep
    \/ TimerCleanup

Next ==
    \/ \E key \in keys : TryConsume(key)
    \/ \E key \in keys : GetStatus(key)
    \/ \E key \in keys : Reset(key)
    \/ ResetAll
    \/ Cleanup
    \/ TimerCleanup
    \/ Destroy
    \/ Tick
    \/ ClockRegress

\* Next, with every setting back of the clock recorded
NextClock ==
    \/ \E key \in keys : TryConsume(key)
    \/ \E key \in keys : GetStatus(key)
    \/ \E key \in keys : Reset(key)
    \/ ResetAll
    \/ Cleanup
    \/ TimerCleanup
    \/ Destroy
    \/ Tick
    \/ ClockRegressSeen

\* the operations need a limiter: there is none when the constructor threw
NextNew == ctor.threw = "" /\ Next

Spec == Init /\ [][Next]_vars
SpecKeys == InitKeys /\ [][Next]_vars
SpecClock == InitClock /\ [][NextClock]_vars
SpecNew == InitNew /\ [][NextNew]_vars
SpecQuota == InitQuota /\ [][Next]_vars
SpecClient == InitClient /\ [][NextClient]_vars

\* ------------------------------------------------------------------ claims
\* the bucket and the history of rateLimitKey, when it has a bucket whose
\* history is complete (no clock anomaly since the bucket was created)
Tracked == rateLimitKey \in DOMAIN hist /\ hist[rateLimitKey].monotonic
Bkt == buckets[rateLimitKey]
Hst == hist[rateLimitKey]
Called(op) == last.op = op
\* the step ends with operation op on key returning (implied by the action
\* of that operation, and cheaper to test first)
ReturnsTo(op, key) == last'.op = op /\ last'.key = key

\* C1: every bucket in the store holds between 0 and maxTokens tokens.
C1_TokensWithinBounds ==
    \A k \in DOMAIN buckets :
        0 <= buckets[k].tokens /\ buckets[k].tokens <= config.maxTokens

\* C2: of the N tryConsume calls made on a fresh bucket before a refill
\* interval has elapsed, exactly min(N, maxTokens) were allowed.
C2_ExactlyMinAllowed ==
    (/\ Tracked
     /\ Hst.calls < MaxCalls
     /\ Hst.credited = 0
     /\ now - Hst.createdAt < config.refillInterval)
    => Hst.allowedCalls * OneToken = Min(Hst.calls * OneToken, config.maxTokens)

\* C3: a tryConsume made after maxTokens allowed calls, less than one
\* refillInterval after the bucket was created, is denied with
\* tokensRemaining = 0 and a retryAfter; with refillRate >= 1 token, the
\* next tryConsume made once the interval has elapsed (since the bucket was
\* created, or since the previous call on the key) is allowed.
C3_DeniedThenRefilled ==
    [][\A key \in keys :
        (ReturnsTo("tryConsume", key) /\ TryConsume(key))
        => /\ (/\ key = rateLimitKey
               /\ Tracked
               /\ Hst.allowedCalls * OneToken = config.maxTokens
               /\ Hst.credited = 0)
              => /\ now - Hst.createdAt < config.refillInterval
                    => /\ ~last'.result.allowed
                       /\ last'.result.tokensRemaining = 0
                       /\ last'.result.hasRetryAfter
                 /\ (now - Hst.createdAt >= config.refillInterval
                     /\ config.refillRate >= OneToken)
                    => last'.result.allowed
           /\ (/\ key \in DOMAIN buckets
               /\ now - buckets[key].lastAccessed >= config.refillInterval
               /\ config.refillRate >= OneToken)
              => last'.result.allowed]_vars

\* C3 witness: the bucket was emptied, a call was denied, an interval was
\* credited and the call just made was allowed again.
C3_Witness ==
    /\ Tracked
    /\ Called("tryConsume")
    /\ last.result.allowed
    /\ Hst.credited = 1
    /\ Hst.allowedCalls * OneToken = config.maxTokens + OneToken
    /\ Hst.calls > Hst.allowedCalls

\* C4: with refillRate > 0, a call made k >= 1 whole intervals after
\* lastRefill on a bucket holding t tokens refills it to
\* min(maxTokens, t + k * refillRate) before any decrement; a full bucket
\* stays full, and an empty one holds min(maxTokens, refillRate) after one
\* interval.
Refilled(key) ==
    Min(config.maxTokens,
        buckets[key].tokens
          + ((now - buckets[key].lastRefill) \div config.refillInterval)
            * config.refillRate)

C4_RefillAmount ==
    [][\A key \in keys :
        (/\ key \in DOMAIN buckets
         /\ config.refillRate > 0
         /\ now - buckets[key].lastRefill >= config.refillInterval)
        => /\ (ReturnsTo("getStatus", key) /\ GetStatus(key))
              => /\ buckets'[key].tokens = Refilled(key)
                 /\ last'.result.tokensRemaining = Refilled(key)
                 /\ buckets[key].tokens = config.maxTokens
                    => buckets'[key].tokens = config.maxTokens
                 /\ (/\ buckets[key].tokens = 0
                     /\ now - buckets[key].lastRefill < 2 * config.refillInterval)
                    => buckets'[key].tokens
                         = Min(config.maxTokens, config.refillRate)
           /\ (ReturnsTo("tryConsume", key) /\ TryConsume(key))
              => /\ buckets'[key].tokens
                      = IF Refilled(key) > 0
                        THEN Refilled(key) - OneToken ELSE Refilled(key)
                 /\ last'.result.allowed <=> Refilled(key) > 0]_vars

\* C4 witness: a getStatus has just credited an interval to a bucket that
\* had been drawn from, and the bucket is still below capacity.
C4_Witness ==
    /\ Tracked
    /\ Called("getStatus")
    /\ Hst.credited >= 1
    /\ Hst.allowedCalls >= 1
    /\ Bkt.lastRefill > Hst.createdAt
    /\ Bkt.tokens > 0
    /\ Bkt.tokens < config.maxTokens

\* C5: with a monotonic clock, lastRefill has advanced by exactly the
\* credited intervals, and the intervals credited up to the latest call at
\* time T are floor((T - T0) / refillInterval), whatever calls were made.
C5_RefillKeepsRemainder ==
    (Tracked /\ config.refillRate > 0)
    => /\ Bkt.lastRefill = Hst.createdAt + Hst.credited * config.refillInterval
       /\ Hst.credited
            = (Bkt.lastAccessed - Hst.createdAt) \div config.refillInterval

\* C5 witness: two intervals were credited by separate calls and the latest
\* call fell strictly inside an interval.
C5_Witness ==
    /\ Tracked
    /\ config.refillRate > 0
    /\ Hst.credited = 2
    /\ Hst.calls >= 2
    /\ Bkt.lastAccessed > Bkt.lastRefill
    /\ Bkt.lastAccessed = now

\* C6: with refillRate = 0, a tryConsume on a key whose tokens have been
\* used up (and that was not reset since) is denied.
C6_NeverRefilled ==
    [][\A key \in keys :
        (/\ config.refillRate = 0
         /\ key \in spent
         /\ ReturnsTo("tryConsume", key)
         /\ TryConsume(key))
        => ~last'.result.allowed]_vars

\* C7: tryConsume, getStatus and reset of one key leave the bucket of every
\* other key as it was, and so the answer a tryConsume of that key gets.
C7_KeysIndependent ==
    [][\A a \in keys :
        (\/ ReturnsTo("tryConsume", a) /\ TryConsume(a)
         \/ ReturnsTo("getStatus", a) /\ GetStatus(a)
         \/ last' = NoCall /\ now' = now /\ Reset(a))
        => \A b \in keys \ {a} :
              /\ b \in DOMAIN buckets' <=> b \in DOMAIN buckets
              /\ b \in DOMAIN buckets => buckets'[b] = buckets[b]
              /\ TryConsumeResult(buckets', b, now)
                   = TryConsumeResult(buckets, b, now)]_vars

\* C7 witness: rateLimitKey has just been denied while the other key still
\* holds a token.
C7_Witness ==
    /\ Called("tryConsume")
    /\ last.key = rateLimitKey
    /\ ~last.result.allowed
    /\ \E b \in DOMAIN buckets \ {rateLimitKey} : buckets[b].tokens > 0

\* C8: the first tryConsume of a key that has no bucket is allowed, reports
\* tokensRemaining = maxTokens - 1 and leaves a bucket with that many tokens.
C8_FirstConsume ==
    [][\A key \in keys :
        (ReturnsTo("tryConsume", key) /\ TryConsume(key)
         /\ key \notin DOMAIN buckets)
        => /\ last'.result.allowed
           /\ last'.result.tokensRemaining = config.maxTokens - OneToken
           /\ key \in DOMAIN buckets'
           /\ buckets'[key].tokens = config.maxTokens - OneToken
           /\ buckets'[key].lastRefill = now
           /\ buckets'[key].lastAccessed = now]_vars

\* C8 witness: the call just made was the first on a bucket created now.
C8_Witness ==
    /\ Tracked
    /\ Called("tryConsume")
    /\ Hst.createdAt = now
    /\ Hst.calls = 1
    /\ Hst.allowedCalls = 1
    /\ last.result.tokensRemaining = config.maxTokens - OneToken

\* C9: every tryConsume result has tokensRemaining >= 0, and every allowed
\* result has tokensRemaining <= maxTokens - 1.
C9_ResultWithinBounds ==
    Called("tryConsume")
    => /\ last.result.tokensRemaining >= 0
       /\ last.result.allowed
          => last.result.tokensRemaining <= config.maxTokens - OneToken

\* C10: getStatus takes no token: it reports allowed exactly when a
\* tryConsume at the same time would be allowed, and a tryConsume made
\* right after it (at the same time, or later when the clock is not behind
\* lastRefill) gets the result it would have got without it.
C10_StatusConsumesNothing ==
    [][\A key \in keys :
        (ReturnsTo("getStatus", key) /\ GetStatus(key))
        => /\ last'.result.allowed = TryConsumeResult(buckets, key, now).allowed
           /\ \A t \in now .. MaxTicks :
                 (key \in DOMAIN buckets => t = now \/ now >= buckets[key].lastRefill)
                 => TryConsumeResult(buckets', key, t)
                      = TryConsumeResult(buckets, key, t)
           /\ key \in DOMAIN buckets
              => buckets'[key].tokens >= buckets[key].tokens
           /\ key \notin DOMAIN buckets
              => buckets'[key].tokens = config.maxTokens]_vars

\* C10 witness: a getStatus on a partly used bucket has just reported the
\* tokens that are left.
C10_Witness ==
    /\ Tracked
    /\ Called("getStatus")
    /\ last.key = rateLimitKey
    /\ Hst.allowedCalls >= 1
    /\ last.result.allowed
    /\ last.result.tokensRemaining = Bkt.tokens
    /\ Bkt.tokens = config.maxTokens - Hst.allowedCalls * OneToken

\* C11: a getStatus that follows a getStatus of the same key, with no
\* tryConsume in between, reports the same tokensRemaining, whatever time
\* has passed between the two.
C11_StatusRepeats ==
    [][(/\ ReturnsTo("getStatus", rateLimitKey)
        /\ GetStatus(rateLimitKey)
        /\ Tracked
        /\ Hst.seen # {})
       => last'.result.tokensRemaining \in Hst.seen]_vars

\* C11 as amended: such a getStatus never reports less than the previous
\* one; it reports the same when refillRate is 0 or no whole refill
\* interval has elapsed since lastRefill, and min(maxTokens, previous +
\* k * refillRate) when k >= 1 intervals have elapsed.
C11_StatusGrowsByRefill ==
    [][(/\ ReturnsTo("getStatus", rateLimitKey)
        /\ GetStatus(rateLimitKey)
        /\ Tracked
        /\ Hst.seen # {})
       => \A v \in Hst.seen :
             /\ last'.result.tokensRemaining >= v
             /\ (config.refillRate = 0
                 \/ now - Bkt.lastRefill < config.refillInterval)
                => last'.result.tokensRemaining = v
             /\ (config.refillRate > 0
                 /\ now - Bkt.lastRefill >= config.refillInterval)
                => last'.result.tokensRemaining
                     = Min(config.maxTokens,
                           v + ((now - Bkt.lastRefill) \div config.refillInterval)
                               * config.refillRate)]_vars

\* C11 witness: getStatus reported fewer than maxTokens tokens, no
\* tryConsume followed, and a refill interval has elapsed since.
C11_Witness ==
    /\ Tracked
    /\ Hst.seen # {}
    /\ \A v \in Hst.seen : v < config.maxTokens /\ v = Bkt.tokens
    /\ config.refillRate > 0
    /\ now - Bkt.lastRefill >= config.refillInterval
    /\ now > Bkt.lastAccessed

\* C12: a cleanup pass, manual or by the timer, removes exactly the buckets
\* with now - lastAccessed > bucketTTL; every other bucket stays in the
\* store as it was, a bucket idle for exactly bucketTTL or accessed at this
\* instant included, and no bucket is added.
C12_CleanupEvictsExactly ==
    [][(last' = NoCall /\ now' = now /\ (Cleanup \/ TimerCleanup))
       => /\ DOMAIN buckets' \subseteq DOMAIN buckets
          /\ \A k \in DOMAIN buckets :
                /\ now - buckets[k].lastAccessed > config.bucketTTL
                   => k \notin DOMAIN buckets'
                /\ now - buckets[k].lastAccessed <= config.bucketTTL
                   => k \in DOMAIN buckets' /\ buckets'[k] = buckets[k]]_vars

\* C12 witness: the timer sweep has just run; the exhausted bucket of
\* rateLimitKey is gone while the other key, idle for exactly bucketTTL,
\* was kept.
C12_Witness ==
    /\ cleanupTimer.active
    /\ cleanupTimer.remaining = config.cleanupInterval
    /\ ticks > 0
    /\ now = ticks
    /\ rateLimitKey \in spent
    /\ rateLimitKey \notin DOMAIN buckets
    /\ \E k \in DOMAIN buckets :
          now - buckets[k].lastAccessed = config.bucketTTL

\* C13: while the timer is active it fires at every multiple of
\* cleanupInterval, and with a clock that was never set back no bucket is
\* in the store for longer than bucketTTL + cleanupInterval after its last
\* access.
C13_IdleBucketSwept ==
    cleanupTimer.active
    => /\ (ticks + cleanupTimer.remaining) % config.cleanupInterval = 0
       /\ cleanupTimer.remaining <= config.cleanupInterval
       /\ now = ticks
          => \A k \in DOMAIN buckets :
                now - buckets[k].lastAccessed
                  <= config.bucketTTL + config.cleanupInterval

\* C13 witness: a bucket survived the previous sweep, being idle for exactly
\* bucketTTL then, and the sweep that is due now finds it idle for
\* bucketTTL + cleanupInterval.
C13_Witness ==
    /\ cleanupTimer.active
    /\ cleanupTimer.remaining = 0
    /\ now = ticks
    /\ rateLimitKey \in DOMAIN buckets
    /\ now - Bkt.lastAccessed = config.bucketTTL + config.cleanupInterval

\* C14: tryConsume and getStatus, which are enabled in every state for any
\* key, return a result whose fields are a boolean, a token count and
\* numbers (possibly Infinity); a tryConsume of a key that has no bucket,
\* because cleanup, reset, resetAll or destroy removed it, gets the answer
\* it would get from a limiter that never saw the key: allowed, with
\* tokensRemaining = maxTokens - 1, from a bucket created full at this time.
WellFormed(res) ==
    /\ res.allowed \in BOOLEAN
    /\ res.tokensRemaining \in Int
    /\ res.resetTime.num \in Int /\ res.resetTime.den \in Nat
    /\ res.hasRetryAfter \in BOOLEAN
    /\ res.retryAfter.num \in Nat /\ res.retryAfter.den \in Nat

C14_RemovedKeyIsNew ==
    [][\A key \in keys :
        /\ (ReturnsTo("getStatus", key) /\ GetStatus(key))
           => WellFormed(last'.result) /\ key \in DOMAIN buckets'
        /\ (ReturnsTo("tryConsume", key) /\ TryConsume(key))
           => /\ WellFormed(last'.result)
              /\ last'.result.hasRetryAfter = ~last'.result.allowed
              /\ key \in DOMAIN buckets'
              /\ key \notin DOMAIN buckets
                 => /\ last'.result = TryConsumeResult(<< >>, key, now)
                    /\ last'.result.allowed
                    /\ last'.result.tokensRemaining
                         = config.maxTokens - OneToken
                    /\ buckets'[key]
                         = [NewBucket(now) EXCEPT
                              !.tokens = config.maxTokens - OneToken]]_vars

\* C14 witness: the key had used up its bucket, a sweep evicted the bucket,
\* and the tryConsume just made was answered from a new, full one.
C14_Witness ==
    /\ Tracked
    /\ Called("tryConsume")
    /\ rateLimitKey \in spent
    /\ config.maxTokens > OneToken
    /\ Hst.createdAt = now
    /\ Hst.calls = 1
    /\ last.result.allowed
    /\ last.result.tokensRemaining = config.maxTokens - OneToken
    /\ Bkt.tokens = config.maxTokens - OneToken

\* C15: with refillRate > 0, a call that finds now < lastRefill leaves the
\* tokens as they were, sets lastRefill (and lastAccessed) to now and
\* returns a well-formed result; tryConsume then takes its one token if the
\* bucket has any, and nothing else.
C15_BackwardClock ==
    [][\A key \in keys :
        (/\ key \in DOMAIN buckets
         /\ config.refillRate > 0
         /\ now < buckets[key].lastRefill)
        => /\ (ReturnsTo("getStatus", key) /\ GetStatus(key))
              => /\ buckets'[key] = [buckets[key] EXCEPT !.lastRefill = now,
                                                         !.lastAccessed = now]
                 /\ last'.result.tokensRemaining = buckets[key].tokens
                 /\ WellFormed(last'.result)
           /\ (ReturnsTo("tryConsume", key) /\ TryConsume(key))
              => /\ buckets'[key].lastRefill = now
                 /\ buckets'[key].lastAccessed = now
                 /\ buckets'[key].tokens
                      = IF buckets[key].tokens > 0
                        THEN buckets[key].tokens - OneToken
                        ELSE buckets[key].tokens
                 /\ last'.result.allowed <=> buckets[key].tokens > 0
                 /\ WellFormed(last'.result)]_vars

\* C15 witness: the clock was set back behind the bucket's lastRefill and
\* the tryConsume made then was allowed; lastRefill is the earlier time.
C15_Witness ==
    /\ rateLimitKey \in DOMAIN hist
    /\ ~Hst.monotonic
    /\ config.refillRate > 0
    /\ Called("tryConsume")
    /\ last.result.allowed
    /\ now < ticks
    /\ Bkt.lastRefill = now
    /\ Bkt.lastAccessed = now
    /\ Bkt.tokens < config.maxTokens - OneToken

\* C16: when the clock was set back and only getStatus was called on the
\* key until the clock returned to its earlier value or passed it, the
\* call made then finds the tokens the bucket would hold had the clock
\* never been set back: those of the bucket as it was, refilled up to now.
C16_RegressNeutral ==
    [][\A s \in snap :
        now >= s.at
        => /\ (ReturnsTo("getStatus", rateLimitKey) /\ GetStatus(rateLimitKey))
              => last'.result.tokensRemaining
                   = RefillBucket(s.bucket, now).tokens
           /\ (ReturnsTo("tryConsume", rateLimitKey) /\ TryConsume(rateLimitKey))
              => /\ last'.result.allowed
                      <=> HasToken(RefillBucket(s.bucket, now))
                 /\ buckets'[rateLimitKey].tokens
                      = ConsumeBucket(RefillBucket(s.bucket, now)).tokens]_vars

\* the clock values at which a later call could be made: far enough ahead
\* for an empty bucket to be refilled to capacity
Ahead == now .. now + (config.maxTokens + OneToken) * config.refillInterval
\* the time t is at or past the time q (a quotient num/den)
AtOrPast(t, q) == IsFinite(q) /\ t * q.den >= q.num

\* C17: with refillRate > 0, the resetTime a call returns is now when the
\* bucket is full; otherwise, with a monotonic clock and no tryConsume, a
\* getStatus at resetTime or later reports maxTokens and a getStatus before
\* resetTime reports less.
C17_ResetTimeIsFull ==
    (/\ Called("tryConsume") \/ Called("getStatus")
     /\ config.refillRate > 0)
    => LET b == buckets[last.key]
           resetTime == last.result.resetTime
       IN /\ b.tokens >= config.maxTokens => resetTime = Rational(now, 1)
          /\ b.tokens < config.maxTokens
             => \A t \in Ahead :
                   IF AtOrPast(t, resetTime)
                   THEN GetStatusResult(buckets, last.key, t).tokensRemaining
                          = config.maxTokens
                   ELSE GetStatusResult(buckets, last.key, t).tokensRemaining
                          < config.maxTokens

\* C18: when a tryConsume is denied at time now with refillRate > 0, a
\* tryConsume made at now + retryAfter (at the first millisecond that is not
\* before it), with a monotonic clock and no call in between, is allowed.
C18_RetryAfterSuffices ==
    (/\ Called("tryConsume")
     /\ ~last.result.allowed
     /\ config.refillRate > 0)
    => \A t \in Ahead :
          (/\ AtOrPast(t - now, last.result.retryAfter)
           /\ ~AtOrPast(t - 1 - now, last.result.retryAfter))
          => TryConsumeResult(buckets, last.key, t).allowed

C20_Messages ==
    <<"maxTokens must be greater than 0",
      "refillRate must be non-negative",
      "refillInterval must be greater than 0",
      "cleanupInterval must be greater than 0",
      "bucketTTL must be greater than 0">>

C20_Constructed ==
    LET g == ctor.given
        bad == <<g.maxTokens <= 0,
                 g.refillRate < 0,
                 g.refillInterval <= 0,
                 g.cleanupInterval # {} /\ (\A v \in g.cleanupInterval : v <= 0),
                 g.bucketTTL # {} /\ (\A v \in g.bucketTTL : v <= 0)>>
    IN /\ ctor.threw # "" <=> \E i \in 1 .. 5 : bad[i]
       /\ \A i \in 1 .. 5 :
             (bad[i] /\ \A j \in 1 .. i - 1 : ~bad[j])
             => ctor.threw = C20_Messages[i]
       /\ \A i, j \in 1 .. 5 : i # j => C20_Messages[i] # C20_Messages[j]
       /\ ctor.threw # ""
          => /\ config = Unassigned
             /\ cleanupTimer = NoTimer
             /\ buckets = << >>
             /\ last = NoCall
       /\ ctor.threw = ""
          => /\ config.maxTokens = g.maxTokens
             /\ config.refillRate = g.refillRate
             /\ config.refillInterval = g.refillInterval
             /\ g.cleanupInterval \in {{}, {config.cleanupInterval}}
             /\ g.cleanupInterval = {}
                => config.cleanupInterval = DefaultCleanupInterval
             /\ g.bucketTTL \in {{}, {config.bucketTTL}}
             /\ g.bucketTTL = {} => config.bucketTTL = DefaultBucketTTL

C20_ConstructionValidated ==
    /\ []C20_Constructed
    /\ [][ctor.threw = "" /\ config' = config /\ ctor' = ctor]_vars

\* C20 witness: a config whose only fault is bucketTTL = 0 was rejected
\* with the bucketTTL message.
C20_Witness ==
    /\ ctor.threw = "bucketTTL must be greater than 0"
    /\ ctor.given.bucketTTL = {0}
    /\ ctor.given.cleanupInterval = {}
    /\ ctor.given.refillRate = 0
    /\ ~cleanupTimer.active

\* C21: destroy leaves the store empty (bucket count 0) and the timer
\* stopped; a stopped timer is never started again and its callback never
\* runs; destroy on a limiter that is already destroyed changes nothing of
\* the limiter.
Destroyed == cleanupTimer = NoTimer /\ buckets = << >>

C21_DestroyFinal ==
    [][/\ (last' = NoCall /\ now' = now /\ Destroy)
          => /\ buckets' = << >>
             /\ GetBucketCount(buckets') = 0
             /\ cleanupTimer' = NoTimer
             /\ Destroyed
                => UNCHANGED <<ctor, keys, config, buckets, cleanupTimer>>
       /\ ~cleanupTimer.active
          => /\ ~cleanupTimer'.active
             /\ ~TimerCleanup]_vars

\* C21 witness: the limiter was destroyed and used again; with a clock
\* that was never set back, its bucket has been idle for longer than
\* bucketTTL + cleanupInterval and is still in the store.
C21_Witness ==
    /\ ~cleanupTimer.active
    /\ now = ticks
    /\ rateLimitKey \in DOMAIN buckets
    /\ now - Bkt.lastAccessed > config.bucketTTL + config.cleanupInterval

\* C22: reset(key) removes the bucket of key when there is one and changes
\* nothing of the limiter when there is none, and either way the bucket of
\* every other key stays as it was; resetAll leaves the store empty; after
\* every step getBucketCount is the number of keys that have a bucket, so
\* reset lowers it by one exactly when the key had a bucket.
HasBucket(bs) == {k \in keys : k \in DOMAIN bs}

C22_ResetFrame ==
    [][/\ GetBucketCount(buckets') = Cardinality(HasBucket(buckets'))
       /\ \A a \in keys :
             (last' = NoCall /\ now' = now /\ Reset(a))
             => /\ a \notin DOMAIN buckets'
                /\ \A b \in keys \ {a} :
                      /\ b \in DOMAIN buckets' <=> b \in DOMAIN buckets
                      /\ b \in DOMAIN buckets => buckets'[b] = buckets[b]
                /\ a \notin DOMAIN buckets
                   => UNCHANGED <<ctor, keys, config, buckets, cleanupTimer>>
                /\ GetBucketCount(buckets')
                     = GetBucketCount(buckets)
                       - (IF a \in DOMAIN buckets THEN 1 ELSE 0)
       /\ (last' = NoCall /\ now' = now /\ ResetAll)
          => /\ buckets' = << >>
             /\ GetBucketCount(buckets') = 0]_vars

\* C22 witness: both keys have a bucket (bucket count 2), so a reset of
\* either key has another bucket to leave alone.
C22_Witness ==
    /\ HasBucket(buckets) = Keys
    /\ GetBucketCount(buckets) = 2
    /\ rateLimitKey \in spent
    /\ \E b \in DOMAIN buckets : buckets[b].tokens > 0

\* C27: with a clock that is never set back and no reset, resetAll or
\* destroy, the tryConsume calls allowed on a key from its first use at T0
\* up to now spend at most maxTokens + floor((now - T0) / refillInterval) *
\* refillRate tokens, whatever cleanup passes ran in between.
C27_EvictionGrantsNoQuota ==
    quota.audited
    => \A T0 \in quota.firstUse :
          quota.allowed * OneToken
            <= config.maxTokens
               + ((now - T0) \div config.refillInterval) * config.refillRate

\* C28: a tryConsume that is denied leaves in the bucket (a new one if the
\* key had none) the tokens it had plus the refill for the time elapsed,
\* never fewer; it sets
\* lastAccessed to now, and moves lastRefill only by whole intervals, or
\* back to now after a clock anomaly, so that the next refill is not later
\* than it would have been without the call.
C28_DeniedKeepsTokens ==
    [][\A key \in keys :
        (/\ ReturnsTo("tryConsume", key)
         /\ ~last'.result.allowed
         /\ TryConsume(key))
        => /\ key \in DOMAIN buckets'
           /\ LET b == IF key \in DOMAIN buckets THEN buckets[key]
                       ELSE NewBucket(now)
                  k == (now - b.lastRefill) \div config.refillInterval
                  anomaly == now < b.lastRefill
              IN /\ buckets'[key].tokens
                      = IF config.refillRate = 0 \/ anomaly THEN b.tokens
                        ELSE Min(config.maxTokens,
                                 b.tokens + k * config.refillRate)
                 /\ buckets'[key].tokens >= b.tokens
                 /\ buckets'[key].lastAccessed = now
                 /\ buckets'[key].lastRefill
                      = IF config.refillRate = 0 THEN b.lastRefill
                        ELSE IF anomaly THEN now
                        ELSE b.lastRefill + k * config.refillInterval
                 /\ buckets'[key].lastRefill + config.refillInterval
                      <= IF anomaly THEN b.lastRefill + config.refillInterval
                         ELSE b.lastRefill + (k + 1) * config.refillInterval]_vars

\* C28 witness: the bucket is empty and the second denied call in a row
\* has just returned, later than the first refill-less instant.
C28_Witness ==
    /\ Tracked
    /\ Called("tryConsume")
    /\ ~last.result.allowed
    /\ Hst.calls >= Hst.allowedCalls + 2
    /\ Bkt.tokens = 0
    /\ Bkt.lastAccessed = now
    /\ now > Bkt.lastRefill

\* C29: with refillRate > 0, in the state right after a tryConsume or a
\* getStatus the bucket of the key was accessed at now and was last refilled
\* at now or less than one refillInterval before it, whether the call
\* created the bucket, refilled it, or found the clock set back.
C29_TimesFollowClock ==
    \A key \in keys :
        (/\ last.key = key
         /\ (Called("tryConsume") \/ Called("getStatus"))
         /\ config.refillRate > 0)
        => /\ key \in DOMAIN buckets
           /\ buckets[key].lastAccessed = now
           /\ 0 <= now - buckets[key].lastRefill
           /\ now - buckets[key].lastRefill < config.refillInterval

\* C29 witness: the clock was set back to before the bucket's creation
\* and a call has just returned with lastRefill pulled back to now.
C29_Witness ==
    /\ rateLimitKey \in DOMAIN hist
    /\ ~Hst.monotonic
    /\ last.key = rateLimitKey
    /\ Called("getStatus")
    /\ config.refillRate > 0
    /\ now < ticks
    /\ Bkt.lastRefill = now

\* ------------------------------------------------------------ the client
\* an operation of the client that tryConsume denied has settled
DeniedOp == client.phase = "settled" /\ client.tokens = 0 /\ client.op \in Ops

\* the step is a fetch of the request in flight
Fetches == client.phase = "attempting" /\ client'.attempts = client.attempts + 1

\* C23: an operation of FF14APIClient whose tryConsume was denied has
\* failed with the rate-limit error (statusCode 429) and has issued no
\* HTTP request.
C23_DeniedFailsAtOnce ==
    DeniedOp
    => /\ client.outcome = Rejected("Rate limit exceeded", 429)
       /\ client.attempts = 0

\* C24: the HTTP request attempts of an operation, retries included, never
\* outnumber the tokens tryConsume granted to it.
C24_AttemptsWithinTokens == client.attempts <= client.tokens

\* C25: HttpClient.get makes at most maxRetries + 1 attempts; a reply that
\* is ok settles it with that reply and no attempt follows; when it throws
\* it throws the error of the last attempt, and after retryable errors only
\* once maxRetries + 1 attempts are made; it has waited retryDelay once
\* between consecutive attempts and never after the last one.
C25_RetryLoop ==
    /\ [](/\ client.attempts <= client.options.maxRetries + 1
          /\ client.phase = "attempting"
             => client.waited = client.attempts * client.options.retryDelay
          /\ client.phase = "delaying"
             => /\ client.attempts <= client.options.maxRetries
                /\ client.waited = (client.attempts - 1) * client.options.retryDelay
          /\ (client.phase = "settled" /\ client.attempts > 0)
             => client.waited = (client.attempts - 1) * client.options.retryDelay
          /\ (client.phase = "settled" /\ client.result.how = "threw"
                /\ ~(/\ client.result.error.status >= 400
                      /\ client.result.error.status <= 499))
             => client.attempts = client.options.maxRetries + 1)
    /\ [][/\ \A r \in Replies :
               (Fetches /\ HttpAttempt(r))
               => /\ Ok(r) => /\ client'.phase = "settled"
                              /\ client'.result = Returned(r)
                  /\ (~Ok(r) /\ client'.phase = "settled")
                     => client'.result = Threw(ErrorOf(r))
          /\ client.phase = "settled"
             => client'.attempts \in {client.attempts, 0}]_vars

\* C25 witness: every attempt timed out, maxRetries being 3, and get has
\* thrown after the fourth, having waited three times.
C25_Witness ==
    /\ client.phase = "settled"
    /\ client.options.maxRetries = DefaultMaxRetries
    /\ client.result = Threw([kind |-> "timeout", status |-> 0])
    /\ client.attempts = DefaultMaxRetries + 1
    /\ client.waited = DefaultMaxRetries * DefaultRetryDelay

\* C26: a reply with a 4xx status makes HttpClient.get throw at once, with
\* that status; a reply with a 5xx status, a network error and a timeout
\* are followed by the delay and another attempt while attempts remain.
C26_RetryOnlyRetryable ==
    [][\A r \in Replies :
        (Fetches /\ HttpAttempt(r))
        => /\ (r.status >= 400 /\ r.status <= 499)
              => /\ client'.phase = "settled"
                 /\ client'.result = Threw(HttpError(r.status))
                 /\ client'.attempts = client.attempts + 1
           /\ (/\ r.status >= 500 \/ r.kind \in {"network", "timeout"}
               /\ client.attempt < client.options.maxRetries)
              => /\ client'.phase = "delaying"
                 /\ client'.op = client.op]_vars

\* C26 witness: a first attempt failed with a retryable error and was
\* retried, the second got a 400 and get threw with two retries left.
C26_Witness ==
    /\ client.phase = "settled"
    /\ client.options.maxRetries = DefaultMaxRetries
    /\ client.attempts = 2
    /\ client.result = Threw(HttpError(400))

\* C30: in the refill interval that starts with the first use of the
\* client's one key, the operations allowed, of whatever kind, are at most
\* maxTokens.
C30_SharedQuota ==
    quota.audited
    => \A T0 \in quota.firstUse :
          now - T0 < config.refillInterval
          => quota.allowed * OneToken <= config.maxTokens

\* the types of the limiter's fields in the specifications of the limiter alone
TypeOK ==
    /\ config \in Configs
    /\ DOMAIN buckets \subseteq keys
    /\ DOMAIN hist \subseteq DOMAIN buckets \cap {rateLimitKey}
    /\ now \in 0 .. MaxTicks
    /\ ticks \in 0 .. MaxTicks
    /\ spent \subseteq keys
====
